---------------------------- MODULE Spec2Model ----------------------------
(***************************************************************************)
(* Landing Page Performance Report: the Report Client (src/app.js, the     *)
(* demo/live variant, and src/unnamed/part_000, the live-only variant) and *)
(* the Proxy Endpoint (src/netlify/functions/psi.js).                      *)
(*                                                                         *)
(* Text is a sequence of tokens.  A token is one character ("<", ">",      *)
(* "a", " ", "\n") or a fixed piece of text that holds no "<", no ">" and  *)
(* no whitespace run (a literal message of the code, a URL scheme).        *)
(* Scores are integers in thousandths (0.9 is 900).                        *)
(***************************************************************************)
EXTENDS Integers, Sequences, FiniteSets, TLC

(* ----------------------------- bounds --------------------------------- *)
\* longest user input, in tokens
MaxInputLen == 3
\* longest HTTP error body, in characters
MaxBodyLen == 3
\* cap on simultaneously running submit handlers (the handler has no cap)
MaxInFlight == 2

(* --------------------------- text helpers ----------------------------- *)
\* normalizeUrl's null: no text (a normalised URL is never empty)
Null == <<>>
\* the placeholder U+2014 shown for an unknown value
Dash == "-"
\* U+274C, the mark that starts every failure status
Cross == "X"
\* U+2705, the mark that starts every success status
Check == "OK"

WS == {" ", "\n"}

Min(a, b) == IF a < b THEN a ELSE b
Max(a, b) == IF a > b THEN a ELSE b

RECURSIVE TrimStart(_)
TrimStart(s) ==
  IF s # <<>> /\ Head(s) \in WS THEN TrimStart(Tail(s)) ELSE s

RECURSIVE TrimEnd(_)
TrimEnd(s) ==
  IF s # <<>> /\ s[Len(s)] \in WS THEN TrimEnd(SubSeq(s, 1, Len(s) - 1)) ELSE s

\* String.prototype.trim
Trim(s) == TrimEnd(TrimStart(s))

\* the index of the first ">" of s at or after i, 0 when there is none
RECURSIVE FirstGt(_, _)
FirstGt(s, i) ==
  IF i > Len(s) THEN 0 ELSE IF s[i] = ">" THEN i ELSE FirstGt(s, i + 1)

\* .replace(/<[^>]*>/g, ""): leftmost matches, each from a "<" to the first
\* ">" after it
RECURSIVE StripTags(_)
StripTags(s) ==
  IF s = <<>> THEN <<>>
  ELSE IF Head(s) = "<" /\ FirstGt(s, 2) # 0
       THEN StripTags(SubSeq(s, FirstGt(s, 2) + 1, Len(s)))
       ELSE <<Head(s)>> \o StripTags(Tail(s))

\* .replace(/\s+/g, " ")
RECURSIVE CollapseWs(_)
CollapseWs(s) ==
  IF s = <<>> THEN <<>>
  ELSE IF Head(s) \in WS
       THEN <<" ">> \o CollapseWs(TrimStart(s))
       ELSE <<Head(s)>> \o CollapseWs(Tail(s))

\* .slice(0, n)
Slice(s, n) == SubSeq(s, 1, Min(Len(s), n))

\* the bound of the catch block's .slice(0, 220)
SafeLen == 220

\* the catch block of app.js: strip tags, collapse whitespace, trim, cut
Sanitize(raw) == Slice(Trim(CollapseWs(StripTags(raw))), SafeLen)

(* ------------------------------ URLs ---------------------------------- *)
Schemes == {"http://", "https://"}
UrlAlphabet == {" ", "a", "example.com", "http://", "https://"}

\* the number of characters of a token of a URL
TokLen(t) ==
  CASE t = "example.com" -> 11
    [] t = "https://" -> 8
    [] t = "http://" -> 7
    [] t = "https" -> 5
    [] t = "http" -> 4
    [] t = "%20" -> 3
    [] t = "//" -> 2
    [] OTHER -> 1

\* String.prototype.length
RECURSIVE StrLen(_)
StrLen(s) == IF s = <<>> THEN 0 ELSE TokLen(Head(s)) + StrLen(Tail(s))

\* the index of the first scheme token of s, 0 when there is none
RECURSIVE FirstScheme(_, _)
FirstScheme(s, i) ==
  IF i > Len(s) THEN 0 ELSE IF s[i] \in Schemes THEN i ELSE FirstScheme(s, i + 1)

\* a parser that accepts every text
UrlParsesAnything(w) == TRUE

\* new URL(w) for w = scheme . rest: the host is rest up to the ":" of its
\* first scheme token (or its end); it must not be empty nor hold a space.
\* What follows that ":" is an empty port and a path, where anything goes.
UrlParses(w) ==
  LET rest == Tail(w)
      k == FirstScheme(rest, 1)
      hostEnd == IF k = 0 THEN Len(rest) ELSE k - 1
  IN /\ rest # <<>>
     /\ \A i \in 1..hostEnd : rest[i] \notin WS

\* the path of the serialised URL: a space is written %20
PathTok(t) == IF t \in WS THEN "%20" ELSE t

\* URL.prototype.toString: the empty port is dropped, an empty path is "/"
UrlToString(w) ==
  LET rest == Tail(w)
      k == FirstScheme(rest, 1)
  IN IF k = 0
     THEN w \o <<"/">>
     ELSE <<Head(w)>> \o SubSeq(rest, 1, k - 1)
          \o <<IF rest[k] = "http://" THEN "http" ELSE "https", "//">>
          \o [i \in 1..(Len(rest) - k) |-> PathTok(rest[k + i])]

normalizeUrl(raw) ==
  LET trimmed == Trim(raw)
      withScheme == IF Head(trimmed) \in Schemes
                    THEN trimmed ELSE <<"https://">> \o trimmed
  IN IF trimmed = <<>> THEN Null
     ELSE IF UrlParses(withScheme) THEN UrlToString(withScheme) ELSE Null

(* ------------------------- report formatting -------------------------- *)
\* a score or percentile that is not of type "number" (absent, null, text)
NotNumber == -1

\* Math.round(score01 * 100).toString(), score01 in thousandths
toPercent(score01) ==
  IF score01 = NotNumber THEN Dash ELSE ToString((score01 + 5) \div 10)

\* a metric object: absent, or present with a percentile that may be no number
NoMetric == [present |-> FALSE, percentile |-> NotNumber]
Metric(p) == [present |-> TRUE, percentile |-> p]

\* (percentile / 1000).toFixed(1)
ToFixed1(percentile) ==
  LET tenths == (percentile + 50) \div 100
  IN ToString(tenths \div 10) \o "." \o ToString(tenths % 10)

formatCwvMetric(metricObj, unit) ==
  IF ~metricObj.present THEN Dash
  ELSE IF metricObj.percentile # NotNumber
       THEN CASE unit = "ms" -> ToString(metricObj.percentile) \o " ms"
              [] unit = "s" -> ToFixed1(metricObj.percentile) \o " s"
              [] OTHER -> ToString(metricObj.percentile)
       ELSE Dash

(* ----------------------- opportunity extraction ----------------------- *)
keys ==
  << "largest-contentful-paint", "render-blocking-resources",
     "unused-javascript", "unused-css-rules", "uses-responsive-images",
     "offscreen-images", "uses-text-compression" >>

KeySet == {keys[i] : i \in 1..Len(keys)}

\* an audit: absent, or present with a score (NotNumber: null) and a title ("": none)
NoAudit == [present |-> FALSE, score |-> NotNumber, title |-> ""]
Audit(s, t) == [present |-> TRUE, score |-> s, title |-> t]

NoAudits == [k \in KeySet |-> NoAudit]

FallbackOpp == "No major opportunities detected (or audit data was limited)."

\* the score from which an audit is "good" and left out (0.9)
GoodScore == 900

\* the cap of the returned list
MaxOpps == 5

\* the body of keys.forEach: the items pushed for the keys from i on
RECURSIVE OppItems(_, _)
OppItems(audits, i) ==
  IF i > Len(keys) THEN <<>>
  ELSE LET audit == audits[keys[i]]
       IN IF ~audit.present THEN OppItems(audits, i + 1)
          ELSE IF audit.score # NotNumber /\ audit.score >= GoodScore
               THEN OppItems(audits, i + 1)
               ELSE <<IF audit.title # "" THEN audit.title ELSE keys[i]>>
                    \o OppItems(audits, i + 1)

\* the list returned whole, the slice forgotten
CapOppsUncapped(items) == items

\* items.slice(0, 5)
CapOpps(items) == Slice(items, MaxOpps)

getTopOpportunities(lighthouseResult) ==
  LET items == OppItems(lighthouseResult.audits, 1)
  IN IF Len(items) = 0 THEN <<FallbackOpp>> ELSE CapOpps(items)

(* ----------------------------- demo data ------------------------------ *)
Cats == {"performance", "accessibility", "best-practices", "seo"}

\* the base scores of the mock categories, in thousandths
MockBase ==
  [c \in Cats |-> CASE c = "performance" -> 720
                    [] c = "accessibility" -> 880
                    [] c = "best-practices" -> 860
                    [] OTHER -> 840]

\* clamp01 that clamps nothing
clamp01Unclamped(n) == n

\* Math.max(0, Math.min(1, n)), in thousandths
clamp01(n) == Max(0, Min(1000, n))

\* Math.min(20, url.length % 20)
MockSeed(url) == Min(20, StrLen(url) % 20)

\* seed / 100 is seed * 10 thousandths
score01(base, seed) == clamp01(base + seed * 10)

MockAudits ==
  [k \in KeySet |->
     CASE k = "largest-contentful-paint" -> Audit(550, "Improve Largest Contentful Paint")
       [] k = "render-blocking-resources" -> Audit(650, "Eliminate render-blocking resources")
       [] k = "unused-javascript" -> Audit(700, "Reduce unused JavaScript")
       [] k = "unused-css-rules" -> Audit(750, "Reduce unused CSS")
       [] k = "offscreen-images" -> Audit(800, "Defer offscreen images")
       [] k = "uses-text-compression" -> Audit(850, "Enable text compression")
       [] OTHER -> NoAudit]

\* loadingExperience.metrics: absent as a whole, or the four metric objects
MetricNames == {"LCP", "INP", "FID", "CLS"}
NoMetrics == [present |-> FALSE, m |-> [n \in MetricNames |-> NoMetric]]
Metrics(lcp, inp, fid, cls) ==
  [present |-> TRUE,
   m |-> [n \in MetricNames |-> CASE n = "LCP" -> lcp [] n = "INP" -> inp
                                   [] n = "FID" -> fid [] OTHER -> cls]]

\* a PerformanceReport as the client reads it
Report(categories, audits, metrics) ==
  [lighthouseResult |-> [categories |-> categories, audits |-> audits],
   metrics |-> metrics]

getMockPsiResponse(url) ==
  Report([c \in Cats |-> score01(MockBase[c], MockSeed(url))],
         MockAudits,
         Metrics(Metric(2500), Metric(190), NoMetric, Metric(8)))

(* --------------------------- Report Client ---------------------------- *)
VARIABLES
  config,         \* the build: which client file, MODE, LIVE_ENDPOINT
  runBtn,         \* the submit control: disabled, textContent
  statusEl,       \* the status line: textContent, className
  resultsHidden,  \* results.classList holds "hidden"
  scoreBoxes,     \* perfScore, a11yScore, bpScore, seoScore
  cwv,            \* lcpEl, inpEl, clsEl, cwvNote
  oppsList,       \* the <li> texts of oppsList, in order
  inflight,       \* the submit handlers suspended at an await
  rendered,       \* history: the report of the last render
  last,           \* history: how the last ended submission went
  proxy,          \* the Proxy Endpoint's invocation
  auditsIn,       \* the audits handed to getTopOpportunities
  oppsOut,        \* and the list it returned
  mockIn,         \* the text handed to normalizeUrl
  mockOut         \* and what the demo path shows for it

clientVars ==
  << config, runBtn, statusEl, resultsHidden, scoreBoxes, cwv, oppsList,
     inflight, rendered, last >>

vars == << clientVars, proxy, auditsIn, oppsOut, mockIn, mockOut >>

\* the function's path in part_000
NetlifyPath == "/.netlify/functions/psi"

\* app.js as committed (demo), app.js switched to live with and without an
\* endpoint, and the live-only client
Configs ==
  { [file |-> "app", MODE |-> "demo", LIVE_ENDPOINT |-> ""],
    [file |-> "app", MODE |-> "live", LIVE_ENDPOINT |-> ""],
    [file |-> "app", MODE |-> "live", LIVE_ENDPOINT |-> "https://worker/psi"],
    [file |-> "part_000", MODE |-> "live", LIVE_ENDPOINT |-> NetlifyPath] }

\* all sequences over S of length at most n
SeqsUpTo(S, n) == UNION {[1..k -> S] : k \in 0..n}

\* every input of at most MaxInputLen tokens
RawInputs == SeqsUpTo(UrlAlphabet, MaxInputLen)

\* what the user submits to the form: blank inputs, inputs with no host or
\* with a space in the host, and URLs with and without a scheme
TypedInputs ==
  { <<>>, <<" ">>, <<"\n", " ">>,
    <<"https://">>, <<"http://", " ">>, <<"a", " ", "a">>,
    <<"example.com">>, <<" ", "example.com", "\n">>,
    <<"http://", "example.com">>, <<"https://", "a">>,
    <<"a", "http://", " ", "a">> }

\* the characters of an error body
BodyAlphabet == {"<", ">", "a", " "}
Bodies == SeqsUpTo(BodyAlphabet, MaxBodyLen)

\* the reports a live endpoint may answer with
LiveCategories ==
  { [c \in Cats |-> NotNumber],
    [c \in Cats |-> IF c = "performance" THEN 495 ELSE 1000] }

LiveAudits ==
  { NoAudits,
    MockAudits,
    [k \in KeySet |-> Audit(950, "Good")],
    [k \in KeySet |-> IF k = "unused-javascript"
                         THEN Audit(NotNumber, "") ELSE Audit(300, k)] }

LiveMetrics ==
  {NoMetrics} \cup
  { Metrics(lcp, inp, fid, cls) :
      lcp \in {NoMetric, Metric(1234)},
      inp \in {NoMetric, Metric(NotNumber), Metric(190)},
      fid \in {NoMetric, Metric(NotNumber), Metric(12)},
      cls \in {Metric(8)} }

Reports ==
  {Report(c, NoAudits, NoMetrics) : c \in LiveCategories}
  \cup {Report([c \in Cats |-> 900], a, NoMetrics) : a \in LiveAudits}
  \cup {Report([c \in Cats |-> 900], MockAudits, m) : m \in LiveMetrics}

NoReport == Report([c \in Cats |-> NotNumber], NoAudits, NoMetrics)

\* an HTTP response as the handler reads it
Response(ok, status, isJson, text, data) ==
  [ok |-> ok, status |-> status, isJson |-> isJson, text |-> text, data |-> data]

NoResponse == Response(FALSE, 0, FALSE, <<>>, NoReport)

ErrorStatuses == {404, 500}

Responses ==
  {Response(TRUE, 200, TRUE, <<>>, d) : d \in Reports}
  \cup {Response(TRUE, 200, FALSE, b, NoReport) : b \in Bodies}
  \cup {Response(FALSE, st, FALSE, b, NoReport) : st \in ErrorStatuses, b \in Bodies}

\* a suspended handler: where it waits, its normalized URL (while it still
\* reads it), the response it holds; history: the fetch calls it made and
\* the class of its input
Handler(pc, url, res, fetches, kind) ==
  [pc |-> pc, url |-> url, res |-> res, fetches |-> fetches, kind |-> kind]

setStatus(msg, type) ==
  [textContent |-> msg,
   className |-> IF type = "" THEN "status" ELSE "status " \o type]

\* setLoading that relabels the control and never disables it
setLoadingLabelOnly(isLoading) ==
  [disabled |-> FALSE,
   textContent |-> IF isLoading THEN "Running..." ELSE "Run Report"]

setLoading(isLoading) ==
  [disabled |-> isLoading,
   textContent |-> IF isLoading THEN "Running..." ELSE "Run Report"]

InvalidUrlMsg == <<Cross, " ", "Please enter a valid URL (example: https://example.com).">>
RunningMsg == <<"Running mobile Lighthouse audit...">>
RunningLiveMsg == <<"Running live mobile Lighthouse audit...">>
DemoDoneMsg == <<Check, " ", "Demo report complete (mock data).">>
LiveDoneMsg == <<Check, " ", "Live report complete.">>
ReportDoneMsg == <<Check, " ", "Report complete.">>
NotConfiguredMsg == <<"Live mode is not configured yet.">>
SomethingWrongMsg == <<"Something went wrong. Try again.">>
\* the message of the TypeError a failed fetch rejects with
FetchFailedMsg == <<"Failed to fetch">>

\* errText || `Request failed: ${res.status}`
RequestFailedMsg(res) ==
  IF res.text # <<>> THEN res.text ELSE <<"Request failed: " \o ToString(res.status)>>

\* the message of the SyntaxError of res.json(): engines differ in whether
\* they quote the start of the body
JsonErrorMsg(res, quoted) ==
  IF quoted
  THEN <<"Unexpected token ">> \o res.text \o <<" is not valid JSON">>
  ELSE <<"Unexpected token in JSON at position 0">>

\* the text the catch block shows for an error message
CatchText(file, message) ==
  LET raw == IF message # <<>> THEN message ELSE SomethingWrongMsg
  IN IF file = "app" THEN <<Cross, " ">> \o Sanitize(raw)
     ELSE <<Cross, " ">> \o raw

NoteNoField == "Field (real-user) data was not available for this URL."
NoteDemo == "Demo mode: values shown are realistic mock data."
NoteField == "Field data availability depends on real-user samples."

\* the INP slot
InpText(file, metrics) ==
  LET inp == metrics.m["INP"]
      fid == metrics.m["FID"]
  IN IF file = "app"
     THEN IF inp.present THEN formatCwvMetric(inp, "ms") ELSE Dash
     ELSE IF inp.present THEN formatCwvMetric(inp, "ms")
          ELSE IF fid.present THEN formatCwvMetric(fid, "ms") ELSE Dash

RenderScores(lh) == [c \in Cats |-> toPercent(lh.categories[c])]

RenderCwv(cfg, metrics) ==
  [lcp |-> IF metrics.m["LCP"].present
           THEN formatCwvMetric(metrics.m["LCP"], "s") ELSE Dash,
   inp |-> InpText(cfg.file, metrics),
   cls |-> IF metrics.m["CLS"].present
           THEN formatCwvMetric(metrics.m["CLS"], "raw") ELSE Dash,
   note |-> IF ~metrics.present THEN NoteNoField
            ELSE IF cfg.file = "app" /\ cfg.MODE = "demo" THEN NoteDemo
            ELSE NoteField]

\* the list after the render: app.js empties it again before appending
RenderOpps(file, list, lh) ==
  IF file = "app" THEN getTopOpportunities(lh)
  ELSE list \o getTopOpportunities(lh)

\* the list left as it is at the start of the handler
ClearOppsForgotten(list) == list

\* oppsList.innerHTML = "" at the start of the handler
ClearOpps(list) == <<>>

\* the form dispatches "submit" only through its enabled submit control
SubmitAllowed == ~runBtn.disabled

Remove(s, i) == SubSeq(s, 1, i - 1) \o SubSeq(s, i + 1, Len(s))

\* history: the class of a typed input, read off the input itself: blank,
\* or with a host (what follows the leading scheme, the implied https://
\* if there is none, up to the next scheme or the end) that is empty or
\* holds a space, or valid
InputKind(raw) ==
  LET t == Trim(raw)
      rest == IF t # <<>> /\ Head(t) \in Schemes THEN Tail(t) ELSE t
  IN IF t = <<>> THEN "blank"
     ELSE IF rest = <<>> THEN "unparsable"
     ELSE IF \E i \in 1..Len(rest) :
               /\ rest[i] \in WS
               /\ \A j \in 1..(i - 1) : rest[j] \notin Schemes
          THEN "unparsable" ELSE "valid"

Ended(kind, outcome, fetches) ==
  [kind |-> kind, outcome |-> outcome, fetches |-> fetches]

NotRendered == [has |-> FALSE, data |-> NoReport]
Rendered(data) == [has |-> TRUE, data |-> data]

(* --------------------------- Proxy Endpoint --------------------------- *)
\* searchParams.get("url") without the parameter; process.env without the key
Absent == "(absent)"

\* !value for a text or an absent value
Falsy(value) == value \in {Absent, ""}

\* the url parameter of a request, and the PSI_API_KEY of the deployment
Targets == {Absent, "", "https://example.com/", "not a url"}
ApiKeys == {Absent, "", "KEY"}

\* what the upstream API answers: a status and a body
UpstreamStatuses == {200, 400, 403, 429, 500, 503}
UpstreamBodies == {"{report}", "{error}", "<html>", ""}

\* Response.ok
IsOk(status) == status >= 200 /\ status <= 299

\* whether JSON.parse accepts a body
IsJson(body) == body \in {"{report}", "{error}"}

\* a response body of the proxy: the relayed upstream JSON (data), or an
\* error object {ok:false, error, details}
ErrorBody(error, details) ==
  [ok |-> "false", error |-> error, details |-> details, data |-> Absent]
RelayBody(data) ==
  [ok |-> Absent, error |-> Absent, details |-> Absent, data |-> data]
NoBody == RelayBody(Absent)

MissingUrlError == "Missing ?url="
MissingKeyError == "Server missing PSI_API_KEY env var"
PsiFailedError == "PSI request failed"
\* err.message of a rejected fetch and of a rejected psiRes.json()
UpstreamFetchError == "fetch failed"
UpstreamJsonError == "Unexpected token in JSON"

\* if (!target)
MissingTarget(target) == Falsy(target)

\* the key check left out
MissingKeyUnchecked(apiKey) == FALSE

\* if (!apiKey)
MissingKey(apiKey) == Falsy(apiKey)

\* the proxy before a request
ProxyIdle ==
  [pc |-> "idle", target |-> Absent, apiKey |-> Absent, psiStatus |-> 0,
   psiBody |-> "", status |-> 0, body |-> NoBody, upstreamCalls |-> 0,
   transportFailed |-> FALSE]

Respond(p, status, body) ==
  [p EXCEPT !.pc = "done", !.status = status, !.body = body]

\* the handler up to await fetch(endpoint), or to its return
ProxyBegin(target, apiKey) ==
  LET p == [ProxyIdle EXCEPT !.target = target, !.apiKey = apiKey]
  IN IF MissingTarget(target) THEN Respond(p, 400, ErrorBody(MissingUrlError, Absent))
     ELSE IF MissingKey(apiKey) THEN Respond(p, 500, ErrorBody(MissingKeyError, Absent))
     ELSE [p EXCEPT !.pc = "fetch", !.upstreamCalls = 1]

\* the handler after psiRes.json() resolved with data
ProxyRelay(p) ==
  IF ~IsOk(p.psiStatus)
  THEN Respond(p, p.psiStatus, ErrorBody(PsiFailedError, p.psiBody))
  ELSE Respond(p, 200, RelayBody(p.psiBody))

\* the catch block
ProxyCatch(p, message) == Respond(p, 500, ErrorBody(message, Absent))

clientIdle == UNCHANGED << clientVars, auditsIn, oppsOut, mockIn, mockOut >>

ProxyRequest(target, apiKey) ==
  /\ proxy.pc = "idle"
  /\ proxy' = ProxyBegin(target, apiKey)
  /\ clientIdle

\* fetch(endpoint) rejects: no connection to the upstream API
UpstreamFailed ==
  /\ proxy.pc = "fetch"
  /\ proxy' = ProxyCatch([proxy EXCEPT !.transportFailed = TRUE], UpstreamFetchError)
  /\ clientIdle

\* fetch(endpoint) resolves with the upstream response
UpstreamResponded(status, body) ==
  /\ proxy.pc = "fetch"
  /\ proxy' = [proxy EXCEPT !.pc = "json", !.psiStatus = status, !.psiBody = body]
  /\ clientIdle

\* psiRes.json() resolves
PsiJsonResolved ==
  /\ proxy.pc = "json"
  /\ IsJson(proxy.psiBody)
  /\ proxy' = ProxyRelay(proxy)
  /\ clientIdle

\* psiRes.json() rejects
PsiJsonRejected ==
  /\ proxy.pc = "json"
  /\ ~IsJson(proxy.psiBody)
  /\ proxy' = ProxyCatch(proxy, UpstreamJsonError)
  /\ clientIdle

\* the response is sent; the next invocation starts from nothing
ProxyReturn ==
  /\ proxy.pc = "done"
  /\ proxy' = ProxyIdle
  /\ clientIdle

\* what the demo path computes and shows for a typed input
DemoOf(raw) ==
  LET url == normalizeUrl(raw)
      data == getMockPsiResponse(url)
  IN IF url = Null
     THEN [valid |-> FALSE, url |-> Null, scores |-> [c \in Cats |-> NotNumber],
           shown |-> [c \in Cats |-> Dash],
           cwv |-> RenderCwv([file |-> "app", MODE |-> "demo"], NoMetrics),
           opps |-> <<>>]
     ELSE [valid |-> TRUE, url |-> url, scores |-> data.lighthouseResult.categories,
           shown |-> RenderScores(data.lighthouseResult),
           cwv |-> RenderCwv([file |-> "app", MODE |-> "demo"], data.metrics),
           opps |-> getTopOpportunities(data.lighthouseResult)]

ProxyInit == proxy = ProxyIdle

OppsInit ==
  /\ auditsIn = NoAudits
  /\ oppsOut = getTopOpportunities([audits |-> NoAudits])

MockInit ==
  /\ mockIn = <<>>
  /\ mockOut = DemoOf(<<>>)

othersIdle == ProxyInit /\ OppsInit /\ MockInit

ClientInit ==
  /\ config \in Configs
  /\ runBtn = setLoading(FALSE)
  /\ statusEl = setStatus(<<>>, "")
  /\ resultsHidden = TRUE
  /\ scoreBoxes = [c \in Cats |-> Dash]
  /\ cwv = [lcp |-> Dash, inp |-> Dash, cls |-> Dash, note |-> ""]
  /\ oppsList = <<>>
  /\ inflight = <<>>
  /\ rendered = NotRendered
  /\ last = Ended("none", "none", 0)

Init == ClientInit /\ othersIdle

\* the handler up to its first await (or to its end, when it has none)
Submit(raw) ==
  /\ SubmitAllowed
  /\ Len(inflight) < MaxInFlight
  /\ resultsHidden' = TRUE
  /\ oppsList' = ClearOpps(oppsList)
  /\ UNCHANGED << config, scoreBoxes, cwv, rendered >>
  /\ LET normalized == normalizeUrl(raw)
         kind == InputKind(raw)
     IN IF normalized = Null
        THEN /\ statusEl' = setStatus(InvalidUrlMsg, "bad")
             /\ last' = Ended(kind, "rejected", 0)
             /\ UNCHANGED << runBtn, inflight >>
        ELSE IF config.file = "app" /\ config.MODE = "demo"
        THEN /\ runBtn' = setLoading(TRUE)
             /\ statusEl' = setStatus(RunningMsg, "")
             /\ inflight' = Append(inflight, Handler("delay", normalized, NoResponse, 0, kind))
             /\ UNCHANGED last
        ELSE IF config.file = "app" /\ config.LIVE_ENDPOINT = ""
        THEN /\ runBtn' = setLoading(FALSE)
             /\ statusEl' = setStatus(CatchText(config.file, NotConfiguredMsg), "bad")
             /\ last' = Ended(kind, "failed", 0)
             /\ UNCHANGED inflight
        ELSE /\ runBtn' = setLoading(TRUE)
             /\ statusEl' = setStatus(IF config.file = "app" THEN RunningLiveMsg
                                                             ELSE RunningMsg, "")
             /\ inflight' = Append(inflight, Handler("fetch", normalized, NoResponse, 1, kind))
             /\ UNCHANGED last

\* the render of a report and the end of the handler (try, then finally)
Succeed(i, data, doneMsg) ==
  /\ scoreBoxes' = RenderScores(data.lighthouseResult)
  /\ cwv' = RenderCwv(config, data.metrics)
  /\ oppsList' = RenderOpps(config.file, oppsList, data.lighthouseResult)
  /\ resultsHidden' = FALSE
  /\ statusEl' = setStatus(doneMsg, "good")
  /\ runBtn' = setLoading(FALSE)
  /\ inflight' = Remove(inflight, i)
  /\ rendered' = Rendered(data)
  /\ last' = Ended(inflight[i].kind, "success", inflight[i].fetches)
  /\ UNCHANGED config

\* the catch block with no finally after it: the control stays as it was
FailNoFinally(i, message) ==
  /\ statusEl' = setStatus(CatchText(config.file, message), "bad")
  /\ inflight' = Remove(inflight, i)
  /\ last' = Ended(inflight[i].kind, "failed", inflight[i].fetches)
  /\ UNCHANGED << config, runBtn, resultsHidden, scoreBoxes, cwv, oppsList, rendered >>

\* the catch block and the end of the handler (catch, then finally)
Fail(i, message) ==
  /\ statusEl' = setStatus(CatchText(config.file, message), "bad")
  /\ runBtn' = setLoading(FALSE)
  /\ inflight' = Remove(inflight, i)
  /\ last' = Ended(inflight[i].kind, "failed", inflight[i].fetches)
  /\ UNCHANGED << config, resultsHidden, scoreBoxes, cwv, oppsList, rendered >>

\* demo: the 800 ms timer fires
DelayElapsed(i) ==
  /\ inflight[i].pc = "delay"
  /\ Succeed(i, getMockPsiResponse(inflight[i].url), DemoDoneMsg)

\* live: fetch resolves with a response; res.ok picks the next await
FetchResolved(i, res) ==
  /\ inflight[i].pc = "fetch"
  /\ inflight' = [inflight EXCEPT ![i] =
        Handler(IF res.ok THEN "json" ELSE "text", Null, res, @.fetches, @.kind)]
  /\ UNCHANGED << config, runBtn, statusEl, resultsHidden, scoreBoxes, cwv,
                  oppsList, rendered, last >>

\* live: fetch rejects (no connection)
FetchRejected(i) ==
  /\ inflight[i].pc = "fetch"
  /\ Fail(i, FetchFailedMsg)

\* live, no 2xx: res.text() resolves and the handler throws
TextResolved(i) ==
  /\ inflight[i].pc = "text"
  /\ Fail(i, RequestFailedMsg(inflight[i].res))

\* live, 2xx: res.json() resolves
JsonResolved(i) ==
  /\ inflight[i].pc = "json"
  /\ inflight[i].res.isJson
  /\ Succeed(i, inflight[i].res.data,
             IF config.file = "app" THEN LiveDoneMsg ELSE ReportDoneMsg)

\* live, 2xx: res.json() rejects, the body is no JSON
JsonRejected(i, quoted) ==
  /\ inflight[i].pc = "json"
  /\ ~inflight[i].res.isJson
  /\ Fail(i, JsonErrorMsg(inflight[i].res, quoted))

\* the build of app.js as committed
CommittedConfig == [file |-> "app", MODE |-> "demo", LIVE_ENDPOINT |-> ""]

ClientAtRest == ClientInit /\ config = CommittedConfig

ProxySpecInit == ClientAtRest /\ othersIdle

ProxyNext ==
  \/ \E target \in Targets, apiKey \in ApiKeys : ProxyRequest(target, apiKey)
  \/ UpstreamFailed
  \/ \E status \in UpstreamStatuses, body \in UpstreamBodies :
        UpstreamResponded(status, body)
  \/ PsiJsonResolved
  \/ PsiJsonRejected
  \/ ProxyReturn

SpecProxy == ProxySpecInit /\ [][ProxyNext]_vars

(* ----------------- getTopOpportunities on every report ---------------- *)
\* what a report may hold under one key: nothing, a score just under 0.9,
\* a score of 0.9, or a null score with no title
AuditChoices(k) ==
  {NoAudit, Audit(899, "Title of " \o k), Audit(900, "Title of " \o k),
   Audit(NotNumber, "")}

SetAudit(k, a) ==
  /\ auditsIn' = [auditsIn EXCEPT ![k] = a]
  /\ oppsOut' = getTopOpportunities([audits |-> auditsIn'])
  /\ UNCHANGED << clientVars, proxy, mockIn, mockOut >>

OppsNext == \E k \in KeySet : \E a \in AuditChoices(k) : SetAudit(k, a)

SpecOpps == ProxySpecInit /\ [][OppsNext]_vars

(* ------------------- the demo path on every input --------------------- *)
Demo(raw) ==
  /\ mockIn' = raw
  /\ mockOut' = DemoOf(raw)
  /\ UNCHANGED << clientVars, proxy, auditsIn, oppsOut >>

MockNext == \E raw \in RawInputs : Demo(raw)

SpecMock == ProxySpecInit /\ [][MockNext]_vars

(* ------------------------ the client's runs --------------------------- *)
idle == UNCHANGED << proxy, auditsIn, oppsOut, mockIn, mockOut >>

Next ==
  \/ \E raw \in TypedInputs : Submit(raw) /\ idle
  \/ \E i \in 1..Len(inflight) : DelayElapsed(i) /\ idle
  \/ \E i \in 1..Len(inflight), res \in Responses : FetchResolved(i, res) /\ idle
  \/ \E i \in 1..Len(inflight) : FetchRejected(i) /\ idle
  \/ \E i \in 1..Len(inflight) : TextResolved(i) /\ idle
  \/ \E i \in 1..Len(inflight) : JsonResolved(i) /\ idle
  \/ \E i \in 1..Len(inflight), quoted \in BOOLEAN : JsonRejected(i, quoted) /\ idle

Spec == Init /\ [][Next]_vars

(* ------------------ the submit control, with fairness ----------------- *)
\* one input of each class, and one response of each class: the control
\* depends on how a submission goes, not on what it shows
ControlInputs ==
  {<<>>, <<"a", " ", "a">>, <<"example.com">>, <<"https://", "a">>}

ControlResponses ==
  { Response(TRUE, 200, TRUE, <<>>, NoReport),
    Response(TRUE, 200, TRUE, <<>>,
             Report([c \in Cats |-> 900], MockAudits, NoMetrics)),
    Response(TRUE, 200, FALSE, <<"<", "a", ">">>, NoReport),
    Response(FALSE, 404, FALSE, <<>>, NoReport),
    Response(FALSE, 500, FALSE, <<"<", "a", ">">>, NoReport) }

\* an await of some handler ends: the timer fires, the request or the
\* reading of its body settles
Settle ==
  \E i \in 1..Len(inflight) :
    \/ DelayElapsed(i) /\ idle
    \/ \E res \in ControlResponses : FetchResolved(i, res) /\ idle
    \/ FetchRejected(i) /\ idle
    \/ TextResolved(i) /\ idle
    \/ JsonResolved(i) /\ idle
    \/ \E quoted \in BOOLEAN : JsonRejected(i, quoted) /\ idle

FairNext ==
  \/ \E raw \in ControlInputs : Submit(raw) /\ idle
  \/ \E i \in 1..Len(inflight) : DelayElapsed(i) /\ idle
  \/ \E i \in 1..Len(inflight), res \in ControlResponses : FetchResolved(i, res) /\ idle
  \/ \E i \in 1..Len(inflight) : FetchRejected(i) /\ idle
  \/ \E i \in 1..Len(inflight) : TextResolved(i) /\ idle
  \/ \E i \in 1..Len(inflight) : JsonResolved(i) /\ idle
  \/ \E i \in 1..Len(inflight), quoted \in BOOLEAN : JsonRejected(i, quoted) /\ idle

\* timers fire and requests settle: every await of a handler ends
FairSpec == Init /\ [][FairNext]_vars /\ WF_vars(Settle)

(* ------------------------------ claims -------------------------------- *)
Range(f) == {f[i] : i \in DOMAIN f}

\* C1: in either client the submit control is disabled, and labelled
\* "Running...", exactly while a submission is loading; every submission
\* that ended (rejected, failed or succeeded) leaves it enabled; and once
\* the awaited timer or request settles, a disabled control is enabled again.
C1_ControlFollowsLoading ==
  /\ [](runBtn.disabled <=> inflight # <<>>)
  /\ [](runBtn.disabled <=> runBtn.textContent = "Running...")
  /\ [](inflight = <<>> => runBtn = [disabled |-> FALSE, textContent |-> "Run Report"])
  /\ (runBtn.disabled ~> ~runBtn.disabled)

\* a submission that went through a request failed and left the control enabled
C1_Witness ==
  /\ last.outcome = "failed"
  /\ last.fetches = 1
  /\ inflight = <<>>
  /\ ~runBtn.disabled

\* C2: at most one submission is in flight, and so at most one request is
\* outstanding, at any time.
C2_OneInFlight ==
  /\ Len(inflight) <= 1
  /\ Cardinality({i \in 1..Len(inflight) : inflight[i].pc = "fetch"}) <= 1

\* a submission waits for its request after an earlier submission ended
C2_Witness ==
  /\ Len(inflight) = 1
  /\ inflight[1].pc = "fetch"
  /\ last.outcome \in {"failed", "success"}

\* C3 as stated: with the key unset the proxy answers 500 with ok:false to
\* every request, whatever its url parameter, and calls nothing upstream.
C3_Original ==
  (proxy.pc = "done" /\ proxy.apiKey = Absent) =>
    /\ proxy.status = 500
    /\ proxy.body.ok = "false"
    /\ proxy.upstreamCalls = 0

\* C3 as amended: with the key unset (or empty) the proxy never calls the
\* upstream API and answers ok:false: with 500 when the url parameter is
\* present and not empty, whatever it holds, and with 400 when it is missing.
C3_KeyUnset ==
  proxy.apiKey \in {Absent, ""} =>
    /\ proxy.pc \in {"idle", "done"}
    /\ proxy.upstreamCalls = 0
    /\ proxy.pc = "done" =>
         /\ proxy.body.ok = "false"
         /\ proxy.status = IF proxy.target \in {Absent, ""} THEN 400 ELSE 500

\* a request with a url that is no URL, answered 500 for the unset key
C3_Witness ==
  /\ proxy.pc = "done"
  /\ proxy.apiKey = Absent
  /\ proxy.target = "not a url"
  /\ proxy.status = 500

\* C4: an upstream answer with a non-success status S is relayed with status
\* S and {ok:false, error:"PSI request failed", details:<upstream body>}; the
\* proxy answers 500 of its own only for a missing key or a failed transport
\* (a successful answer whose body is no JSON counted as one), and 200 only
\* when the upstream answered with success.
C4_RelaysUpstreamStatus ==
  proxy.pc = "done" =>
    /\ (proxy.psiStatus # 0 /\ ~IsOk(proxy.psiStatus)) =>
         /\ proxy.status = proxy.psiStatus
         /\ proxy.body = ErrorBody(PsiFailedError, proxy.psiBody)
    /\ proxy.status = 500 =>
         \/ proxy.apiKey \in {Absent, ""}
         \/ proxy.transportFailed
         \/ (IsOk(proxy.psiStatus) /\ ~IsJson(proxy.psiBody))
         \/ proxy.psiStatus = 500
    /\ proxy.status = 200 => IsOk(proxy.psiStatus)

\* no "<" of the text is followed by a ">": the text holds no <...>
NoTag(text) ==
  ~ \E i, j \in 1..Len(text) : i < j /\ text[i] = "<" /\ text[j] = ">"

\* no two whitespace characters in a row, and no whitespace but the space
NoWhitespaceRun(text) ==
  /\ \A i \in 1..Len(text) : text[i] # "\n"
  /\ \A i \in 1..(Len(text) - 1) : ~(text[i] = " " /\ text[i + 1] = " ")

\* C5: every failure status, in either client, is sanitised: no HTML tag,
\* whitespace runs collapsed, the message at most 220 characters after the
\* mark and its space.
C5_FailureStatusSanitised ==
  statusEl.className = "status bad" =>
    /\ NoTag(statusEl.textContent)
    /\ NoWhitespaceRun(statusEl.textContent)
    /\ Len(statusEl.textContent) <= 2 + SafeLen

\* the audits of the report that count as opportunities: present, and with
\* a score under 0.9 or no numeric score
Qualifies(audit) ==
  audit.present /\ (audit.score = NotNumber \/ audit.score < 900)

\* the title shown for key number i
TitleOf(audits, i) ==
  IF audits[keys[i]].title # "" THEN audits[keys[i]].title ELSE keys[i]

\* the titles of the qualifying audits from key i on, in key order
RECURSIVE Wanted(_, _)
Wanted(audits, i) ==
  IF i > Len(keys) THEN <<>>
  ELSE (IF Qualifies(audits[keys[i]]) THEN <<TitleOf(audits, i)>> ELSE <<>>)
       \o Wanted(audits, i + 1)

\* s is t with elements left out, the order kept
IsOrderedPartOf(s, t) ==
  \E f \in [1..Len(s) -> 1..Len(t)] :
    /\ \A i \in 1..Len(s) : s[i] = t[f[i]]
    /\ \A i, j \in 1..Len(s) : i < j => f[i] < f[j]

\* C6 as stated: the fallback alone when nothing qualifies; otherwise the
\* title of each qualifying audit, in key order, and no title of an audit
\* scoring 0.9 or more; and between 1 and 5 titles.
C6_Original ==
  LET wanted == Wanted(auditsIn, 1)
  IN /\ wanted = <<>> => oppsOut = <<FallbackOpp>>
     /\ wanted # <<>> =>
          /\ \A i \in 1..Len(wanted) : wanted[i] \in Range(oppsOut)
          /\ IsOrderedPartOf(oppsOut, wanted)
     /\ Len(oppsOut) \in 1..5

\* C6 as amended: the fallback alone when nothing qualifies; otherwise the
\* titles of the first five qualifying audits, in key order, and nothing
\* else; and between 1 and 5 titles.
C6_FirstFiveQualifying ==
  LET wanted == Wanted(auditsIn, 1)
  IN /\ wanted = <<>> => oppsOut = <<FallbackOpp>>
     /\ wanted # <<>> =>
          oppsOut = [i \in 1..(IF Len(wanted) < 5 THEN Len(wanted) ELSE 5) |-> wanted[i]]
     /\ Len(oppsOut) \in 1..5

\* seven audits qualify and five titles are returned
C6_Witness ==
  /\ Len(Wanted(auditsIn, 1)) = 7
  /\ Len(oppsOut) = 5

\* whether a metric supplies a numeric percentile
Numeric(metric) == metric.present /\ metric.percentile # NotNumber

\* C7: in the rendered report of either client the INP slot shows INP in
\* whole milliseconds when INP supplies a percentile, FID in whole
\* milliseconds when INP is absent and FID supplies one, and the placeholder
\* only when neither supplies one.
C7_InpSlot ==
  rendered.has =>
    LET inp == rendered.data.metrics.m["INP"]
        fid == rendered.data.metrics.m["FID"]
    IN /\ Numeric(inp) => cwv.inp = ToString(inp.percentile) \o " ms"
       /\ (~inp.present /\ Numeric(fid)) => cwv.inp = ToString(fid.percentile) \o " ms"
       /\ cwv.inp = Dash => (~Numeric(inp) /\ ~Numeric(fid))

\* a handler that has called fetch: it waits for the request or its body
Fetching(h) == h.pc \in {"fetch", "text", "json"} \/ h.fetches > 0

\* C8: a submission that fails before the network stage calls fetch zero
\* times: a blank or unparsable input is rejected with the validation
\* status, a live submission without an endpoint fails with the
\* configuration error, and a demo submission never fetches.
C8_NoFetchBeforeNetworkStage ==
  /\ \A i \in 1..Len(inflight) : inflight[i].kind = "valid"
  /\ last.kind \in {"blank", "unparsable"} =>
       /\ last.outcome = "rejected"
       /\ last.fetches = 0
  /\ (last.outcome = "rejected" /\ inflight = <<>>) =>
       statusEl = setStatus(InvalidUrlMsg, "bad")
  /\ (config.file = "app" /\ config.MODE = "live" /\ config.LIVE_ENDPOINT = "") =>
       /\ inflight = <<>>
       /\ last.fetches = 0
       /\ last.kind = "valid" =>
            /\ last.outcome = "failed"
            /\ statusEl.textContent = <<Cross, " ">> \o NotConfiguredMsg
  /\ (config.file = "app" /\ config.MODE = "demo") =>
       /\ last.fetches = 0
       /\ \A i \in 1..Len(inflight) : ~Fetching(inflight[i])

\* an input with a space in its host was rejected
C8_Witness ==
  /\ last.kind = "unparsable"
  /\ last.outcome = "rejected"
  /\ last.fetches = 0
  /\ statusEl = setStatus(InvalidUrlMsg, "bad")

\* the base scores of C9, in thousandths
C9Base(c) ==
  CASE c = "performance" -> 720 [] c = "accessibility" -> 880
    [] c = "best-practices" -> 860 [] c = "seo" -> 840

\* C9: for every normalized URL the offset is its length mod 20, each
\* category score is min(1, base + offset/100) and lies in [0,1], the
\* performance percentage shown is an integer in [72,92]; "example.com" is
\* normalized to "https://example.com/" and shows LCP "2.5 s", INP "190 ms"
\* and CLS "8".
C9_MockScores ==
  mockOut.valid =>
    LET offset == StrLen(mockOut.url) % 20
    IN /\ offset \in 0..19
       /\ \A c \in Cats :
            /\ mockOut.scores[c] = (IF C9Base(c) + 10 * offset < 1000
                                     THEN C9Base(c) + 10 * offset ELSE 1000)
            /\ mockOut.scores[c] \in 0..1000
       /\ mockOut.shown["performance"] \in {ToString(n) : n \in 72..92}
       /\ mockIn = <<"example.com">> =>
            /\ mockOut.url = <<"https://", "example.com", "/">>
            /\ StrLen(mockOut.url) = 20
            /\ mockOut.cwv.lcp = "2.5 s"
            /\ mockOut.cwv.inp = "190 ms"
            /\ mockOut.cwv.cls = "8"

\* a URL whose offset takes accessibility to the clamp
C9_Witness ==
  /\ mockOut.valid
  /\ StrLen(mockOut.url) % 20 > 12
  /\ mockOut.scores["accessibility"] = 1000

\* C10: the displayed opportunities are none, or exactly the titles of the
\* last rendered report, never more than 5.
C10_OppsOfOneReport ==
  /\ Len(oppsList) <= 5
  /\ oppsList # <<>> =>
       /\ rendered.has
       /\ oppsList = getTopOpportunities(rendered.data.lighthouseResult)

\* the live-only client shows five titles
C10_Witness ==
  /\ config.file = "part_000"
  /\ Len(oppsList) = 5
  /\ ~resultsHidden

=============================================================================
